---- MODULE Spec2Model ----
(***************************************************************************)
(* Model of controllers/configmap_controller.go: the ConfigMapReconciler   *)
(* that reconciles the windows-instances ConfigMap (address -> "username=  *)
(* <name>") against the cluster's Node list.                               *)
(*                                                                         *)
(* Strings that the code splits are sequences of tokens, the separator "=" *)
(* being a token of its own: "username=admin" is <<"username","=","admin">>*)
(* An absent map key / annotation is the value Absent.                     *)
(***************************************************************************)
EXTENDS Integers, Sequences, FiniteSets, TLC

VARIABLES
    configMap,   \* the windows-instances ConfigMap on the API server: [exists, data]
    cluster,     \* the Nodes on the API server, in List order
    resolver,    \* what net.LookupHost answers for each non-literal address
    pc,          \* position of the running Reconcile call ("idle" between passes)
    instances,   \* Reconcile's configMap local: the Data reconcileNodes was given
    hosts,       \* reconcileNodes' hosts slice
    nodes,       \* reconcileNodes' nodes.Items: the snapshot r.client.List returned
    idx,         \* index of the running range loop (hosts, then nodes.Items)
    calls,       \* collaborator calls and per-host decisions of the running pass, in order
    result,      \* what the pass returned: "none" while running, "ok", "error", "panic"
    errAddr,     \* the address the returned error names (Absent when it names none)
    prevOk,      \* the previous pass returned nil (and nothing changed since)
    prevActed,   \* the previous pass called configureInstance or deconfigureInstance
    vAddr,       \* validateAddress harness: the address last validated
    vRes,        \* validateAddress harness: what it returned
    cancelled,   \* the ctx given to Reconcile is done
    event,       \* the watch event last delivered to the controller's sources
    requests,    \* the reconcile.Requests that event enqueued
    boot         \* the EnsureWindowsInstancesConfigMap call of operator bootup: [pc, calls, result]

\* What the passes of Reconcile leave alone.
watch == <<cancelled, event, requests, boot>>

vars == <<configMap, cluster, resolver, pc, instances, hosts, nodes, idx, calls,
          result, errAddr, prevOk, prevActed, vAddr, vRes, watch>>


Absent == "<absent>"

\* ---------------------------------------------------------------- bounds
MaxNodes == 2      \* Nodes on the cluster in the initial state
MaxEntries == 2    \* entries of the ConfigMap's Data in the initial state

\* ------------------------------------------------------------- addresses
IPv4Literals == {"10.0.0.5", "10.0.0.6", "10.0.0.7"}
IPv4MappedLiterals == {"::ffff:10.0.0.5"}
IPv6Literals == {"::1"}
NonLiterals == {"host.example", "winhost.example", "999.999.999.999"}
Addresses == IPv4Literals \cup IPv4MappedLiterals \cup IPv6Literals \cup NonLiterals

LookupOutcomes == {"addrs", "empty", "err"}

\* net.ParseIP: nil for a string that is no IP literal, else the 16-byte form, in
\* which a dotted quad and its ::ffff: form are the same value.
ParseIP(address) ==
    IF address \in IPv4Literals \cup IPv4MappedLiterals THEN [nil |-> FALSE, v4in6 |-> TRUE]
    ELSE IF address \in IPv6Literals THEN [nil |-> FALSE, v4in6 |-> FALSE]
    ELSE [nil |-> TRUE, v4in6 |-> FALSE]

\* net.IP.To4: non-nil exactly for the 4-in-6 values.
To4(ip) == [nil |-> ~ip.v4in6, v4in6 |-> ip.v4in6]

\* validateAddress: err is the returned error ("nil" for none), lookup tells whether
\* net.LookupHost was called.
validateAddress(address, lookupHost) ==
    LET parsedAddr == ParseIP(address) IN
    IF ~parsedAddr.nil
    THEN IF ~To4(parsedAddr).nil
         THEN [err |-> "nil", lookup |-> FALSE]
         ELSE [err |-> "ipv6 is not supported", lookup |-> FALSE]
    ELSE IF lookupHost[address] = "err"
         THEN [err |-> "error looking up DNS", lookup |-> TRUE]
         ELSE IF lookupHost[address] = "empty"
              THEN [err |-> "DNS did not resolve to an address", lookup |-> TRUE]
              ELSE [err |-> "nil", lookup |-> TRUE]

\* ------------------------------------------------------------ parseHosts
\* Values of the ConfigMap's Data, as token sequences.
Values == { <<"username", "=", "admin">>,            \* username=admin
            <<"admin">>,                              \* admin
            <<"username">>,                           \* username
            <<"username", "=", "a", "=", "b">>,       \* username=a=b
            <<"user", "=", "admin">> }                \* user=admin

\* Index of the first separator of data, 0 when there is none.
IndexSep(data) ==
    IF \E i \in 1..Len(data) : data[i] = "="
    THEN CHOOSE i \in 1..Len(data) : data[i] = "=" /\ \A j \in 1..(i-1) : data[j] /= "="
    ELSE 0

\* strings.SplitN(data, "=", 2): at most two pieces, cut at the first separator.
SplitN2(data) ==
    LET i == IndexSep(data) IN
    IF i = 0 THEN <<data>>
    ELSE <<SubSeq(data, 1, i - 1), SubSeq(data, i + 1, Len(data))>>

NewInstanceInfo(address, username) == [Address |-> address, Username |-> username]

\* One iteration of parseHosts' loop body on an entry: "append", or how it leaves.
parseEntry(address, data, lookupHost) ==
    LET v == validateAddress(address, lookupHost)
        splitData == SplitN2(data) IN
    IF v.err /= "nil" THEN [out |-> "invalid address", host |-> Absent]
    ELSE IF Len(splitData) = 0 \/ splitData[1] /= <<"username">>
         THEN [out |-> "incorrect format", host |-> Absent]
         ELSE IF Len(splitData) < 2
              THEN [out |-> "panic", host |-> Absent]     \* splitData[1] out of range
              ELSE [out |-> "append", host |-> NewInstanceInfo(address, splitData[2])]

\* parseHosts over configMapData, its keys visited in the order `order` (Go ranges a
\* map in an unspecified order).
RECURSIVE parseHostsFrom(_, _, _, _, _)
parseHostsFrom(configMapData, order, k, acc, lookupHost) ==
    IF k > Len(order) THEN [out |-> "ok", hosts |-> acc, addr |-> Absent]
    ELSE LET e == parseEntry(order[k], configMapData[order[k]], lookupHost) IN
         IF e.out = "append"
         THEN parseHostsFrom(configMapData, order, k + 1, Append(acc, e.host), lookupHost)
         ELSE [out |-> e.out, addr |-> order[k],
               hosts |-> IF e.out = "incorrect format" THEN acc ELSE <<>>]

parseHosts(configMapData, order, lookupHost) ==
    parseHostsFrom(configMapData, order, 1, <<>>, lookupHost)

\* The orders in which a range over a map with key set S can visit it.
Orders(S) ==
    {s \in [1..Cardinality(S) -> S] : \A i, j \in 1..Cardinality(S) : i /= j => s[i] /= s[j]}

\* ---------------------------------------------------------------- Nodes
\* A Node: its name, Status.Addresses, and the annotations the controller reads.
BYOHValues == {Absent, "true", "false"}
VersionValues == {Absent, "v1"}
NodeAddresses == {{"10.0.0.5"}, {"10.0.0.7"}, {"10.0.0.6", "10.0.0.7"}}

Node(name, addrs, byoh, version, username) ==
    [name |-> name, addrs |-> addrs, byoh |-> byoh, version |-> version,
     username |-> username]

\* Line 172: the test that puts a Node in byohNodes.
isBYOHNode(node) == node.byoh = "true"

\* Line 241: the test deconfigureInstances applies before looking at a Node.
hasBYOHAnnotation(node) == node.byoh /= Absent

\* findNode: index in nodeList of the first Node exposing address, 0 when not found.
findNode(address, nodeList) ==
    IF \E i \in 1..Len(nodeList) : address \in nodeList[i].addrs
    THEN CHOOSE i \in 1..Len(nodeList) :
             /\ address \in nodeList[i].addrs
             /\ \A j \in 1..(i-1) : address \notin nodeList[j].addrs
    ELSE 0

\* hasAssociatedInstance asking for an instance on every address of the Node.
hasAssociatedInstanceOnEveryAddress(node, instanceList) ==
    \A addr \in node.addrs :
        \E k \in 1..Len(instanceList) : instanceList[k].Address = addr

\* hasAssociatedInstance: some instance's address is one of the Node's addresses.
hasAssociatedInstance(node, instanceList) ==
    \E k \in 1..Len(instanceList) : instanceList[k].Address \in node.addrs

\* instanceIsConfigured with the presence test on the version annotation inverted.
instanceIsConfiguredInverted(instance, nodeList) ==
    LET i == findNode(instance.Address, nodeList) IN
    i /= 0 /\ nodeList[i].version = Absent

\* instanceIsConfigured looking only at the Nodes that carry the marker "true".
instanceIsConfiguredManagedOnly(instance, nodeList) ==
    LET i == findNode(instance.Address, nodeList) IN
    i /= 0 /\ nodeList[i].version /= Absent /\ isBYOHNode(nodeList[i])

\* Lines 218-226 of ensureInstanceIsConfigured: TRUE when it returns nil without
\* calling configureInstance.
instanceIsConfigured(instance, nodeList) ==
    LET i == findNode(instance.Address, nodeList) IN
    i /= 0 /\ nodeList[i].version /= Absent

\* nothingToReconcile testing the whole Node list instead of byohNodes.
nothingToReconcileAllNodes(hostList, nodeList) ==
    Len(hostList) = 0 /\ Len(nodeList) = 0

\* Lines 170-181: TRUE when reconcileNodes returns nil before creating the signer.
nothingToReconcile(hostList, nodeList) ==
    Len(hostList) = 0 /\ Len(SelectSeq(nodeList, isBYOHNode)) = 0

\* configureAnnotations with the marker left out.
configureAnnotationsUnmarked(instance) == [byoh |-> Absent, username |-> instance.Username]

\* The annotations ensureInstanceIsConfigured passes to configureInstance.
configureAnnotations(instance) == [byoh |-> "true", username |-> instance.Username]

\* configureInstance returning nil: the Node of the instance carries the version
\* annotation and the annotations passed. The Node is one that exposes the
\* instance's address, or a new one when no Node does.
FreshName(cl) == CHOOSE k \in 1..(Len(cl) + 1) : \A i \in 1..Len(cl) : cl[i].name /= k

configureInstance(cl, instance, annotations) ==
    LET hit == {i \in 1..Len(cl) : instance.Address \in cl[i].addrs} IN
    IF hit /= {}
    THEN {[cl EXCEPT ![i] = [@ EXCEPT !.byoh = annotations.byoh,
                                      !.username = annotations.username,
                                      !.version = "v1"]] : i \in hit}
    ELSE {Append(cl, Node(FreshName(cl), {instance.Address}, annotations.byoh, "v1",
                          annotations.username))}

\* deconfigureInstance returning nil: the Node is removed from the cluster.
deconfigureInstance(cl, node) == SelectSeq(cl, LAMBDA n : n.name /= node.name)

\* ----------------------------------------------------------------- calls
Call(op, addr, node, ok) == [op |-> op, addr |-> addr, node |-> node, ok |-> ok]

NoData == [a \in {} |-> <<>>]

\* Whether a call log holds a configureInstance or deconfigureInstance call.
Provisioned(log) == \E i \in 1..Len(log) : log[i].op \in {"Configure", "Deconfigure"}

\* A pass returns: the error (or nil) of Reconcile.
Return(res, addr) ==
    /\ pc' = "idle"
    /\ result' = res
    /\ errAddr' = addr

Running(at) ==
    /\ pc' = at
    /\ UNCHANGED <<result, errAddr>>

\* ------------------------------------------------------------- contexts
\* Whether the context a call is given is done: the ctx of Reconcile is done once the
\* cancellation is raised, context.TODO() never is.
Done(ctx) == ctx = "ctx" /\ cancelled

\* The context Reconcile gives to ensure (line 106), and so to its Get and Create.
ensureCtx == "TODO"

\* The context reconcileNodes gives to r.client.List (line 165).
listCtx == "ctx"

\* ------------------------------------------------------------- Reconcile
\* Reconcile is called (lines 98-106) and ensure's first Get finds the ConfigMap.
ReconcileGetFound ==
    /\ pc = "idle"
    /\ ~Done(ensureCtx)
    /\ configMap.exists
    /\ prevOk' = (result = "ok")
    /\ prevActed' = Provisioned(calls)
    /\ calls' = <<Call("Get", Absent, 0, TRUE)>>
    /\ instances' = configMap.data
    /\ hosts' = <<>> /\ nodes' = <<>> /\ idx' = 0
    /\ pc' = "parseHosts" /\ result' = "none" /\ errAddr' = Absent
    /\ UNCHANGED <<configMap, cluster, resolver, vAddr, vRes, watch>>

\* ensure's first Get answers "not found" (lines 323-326).
ReconcileGetNotFound ==
    /\ pc = "idle"
    /\ ~Done(ensureCtx)
    /\ ~configMap.exists
    /\ prevOk' = (result = "ok")
    /\ prevActed' = Provisioned(calls)
    /\ calls' = <<Call("Get", Absent, 0, FALSE)>>
    /\ instances' = NoData
    /\ hosts' = <<>> /\ nodes' = <<>> /\ idx' = 0
    /\ pc' = "ensureCreate" /\ result' = "none" /\ errAddr' = Absent
    /\ UNCHANGED <<configMap, cluster, resolver, vAddr, vRes, watch>>

\* ensure's first Get fails with another error: Reconcile returns it (lines 336, 107-110).
ReconcileGetError ==
    /\ pc = "idle"
    /\ prevOk' = (result = "ok")
    /\ prevActed' = Provisioned(calls)
    /\ calls' = <<Call("Get", Absent, 0, FALSE)>>
    /\ instances' = NoData
    /\ hosts' = <<>> /\ nodes' = <<>> /\ idx' = 0
    /\ Return("error", Absent)
    /\ UNCHANGED <<configMap, cluster, resolver, vAddr, vRes, watch>>

\* ensureCreate returning an error after the Create, for the pass to be run again.
ensureCreateThenFail ==
    /\ pc = "ensureCreate"
    /\ ~Done(ensureCtx)
    /\ ~configMap.exists
    /\ configMap' = [exists |-> TRUE, data |-> NoData]
    /\ calls' = Append(calls, Call("Create", Absent, 0, TRUE))
    /\ Return("error", Absent)
    /\ UNCHANGED <<cluster, resolver, instances, hosts, nodes, idx, prevOk, prevActed, vAddr, vRes, watch>>

\* ensure creates the empty ConfigMap (lines 325-330).
ensureCreate ==
    /\ pc = "ensureCreate"
    /\ ~Done(ensureCtx)
    /\ ~configMap.exists
    /\ configMap' = [exists |-> TRUE, data |-> NoData]
    /\ calls' = Append(calls, Call("Create", Absent, 0, TRUE))
    /\ Running("ensureGet")
    /\ UNCHANGED <<cluster, resolver, instances, hosts, nodes, idx, prevOk, prevActed, vAddr, vRes, watch>>

\* ensureCreateError going on to the second Get instead of returning the error.
ensureCreateErrorTolerated ==
    /\ pc = "ensureCreate"
    /\ calls' = Append(calls, Call("Create", Absent, 0, FALSE))
    /\ Running("ensureGet")
    /\ UNCHANGED <<configMap, cluster, resolver, instances, hosts, nodes, idx, prevOk,
                   prevActed, vAddr, vRes, watch>>

\* The Create fails (lines 327-329).
ensureCreateError ==
    /\ pc = "ensureCreate"
    /\ calls' = Append(calls, Call("Create", Absent, 0, FALSE))
    /\ Return("error", Absent)
    /\ UNCHANGED <<configMap, cluster, resolver, instances, hosts, nodes, idx, prevOk,
                   prevActed, vAddr, vRes, watch>>

\* ensure reads the ConfigMap it created (lines 331-336).
ensureGet ==
    /\ pc = "ensureGet"
    /\ ~Done(ensureCtx)
    /\ configMap.exists
    /\ instances' = configMap.data
    /\ calls' = Append(calls, Call("Get", Absent, 0, TRUE))
    /\ Running("parseHosts")
    /\ UNCHANGED <<configMap, cluster, resolver, hosts, nodes, idx, prevOk, prevActed, vAddr, vRes, watch>>

\* The second Get fails (lines 331-333).
ensureGetError ==
    /\ pc = "ensureGet"
    /\ calls' = Append(calls, Call("Get", Absent, 0, FALSE))
    /\ Return("error", Absent)
    /\ UNCHANGED <<configMap, cluster, resolver, instances, hosts, nodes, idx, prevOk,
                   prevActed, vAddr, vRes, watch>>

\* ---------------------------------------------------------- reconcileNodes
\* Lines 159-162: parseHosts, in one of the orders the map can be ranged in.
reconcileParseHosts ==
    /\ pc = "parseHosts"
    /\ \E order \in Orders(DOMAIN instances) :
         LET p == parseHosts(instances, order, resolver) IN
         /\ hosts' = IF p.out = "ok" THEN p.hosts ELSE <<>>
         /\ IF p.out = "ok" THEN Running("List")
            ELSE IF p.out = "panic" THEN Return("panic", p.addr)
            ELSE Return("error", p.addr)
    /\ UNCHANGED <<configMap, cluster, resolver, instances, nodes, idx, calls, prevOk,
                   prevActed, vAddr, vRes, watch>>

\* Lines 164-181: the List succeeds; the pass ends here when there is nothing to do.
reconcileList ==
    /\ pc = "List"
    /\ ~Done(listCtx)
    /\ nodes' = cluster
    /\ calls' = Append(calls, Call("List", Absent, 0, TRUE))
    /\ IF nothingToReconcile(hosts, cluster)
       THEN Return("ok", Absent)
       ELSE Running("signer")
    /\ UNCHANGED <<configMap, cluster, resolver, instances, hosts, idx, prevOk, prevActed, vAddr, vRes, watch>>

\* Lines 166-168: the List fails.
reconcileListError ==
    /\ pc = "List"
    /\ calls' = Append(calls, Call("List", Absent, 0, FALSE))
    /\ Return("error", Absent)
    /\ UNCHANGED <<configMap, cluster, resolver, instances, hosts, nodes, idx, prevOk,
                   prevActed, vAddr, vRes, watch>>

\* Where reconcileNodes goes after the loop over hosts reaches index i.
afterHost(i) == IF i > Len(hosts) THEN "deconfigure" ELSE "configure"

\* afterNode never entering the loop over nodes.Items.
afterNodeNoLoop(i) == "prometheus"

\* Where it goes after the loop over nodes.Items reaches index i.
afterNode(i) == IF i > Len(nodes) THEN "prometheus" ELSE "deconfigure"

\* Lines 184-188: signer.Create succeeds.
reconcileSigner ==
    /\ pc = "signer"
    /\ calls' = Append(calls, Call("signer", Absent, 0, TRUE))
    /\ idx' = 1
    /\ Running(IF Len(hosts) = 0 THEN afterNode(1) ELSE "configure")
    /\ UNCHANGED <<configMap, cluster, resolver, instances, hosts, nodes, prevOk, prevActed, vAddr, vRes, watch>>

\* reconcileSignerError with the error dropped: the pass goes on without a signer.
reconcileSignerErrorIgnored ==
    /\ pc = "signer"
    /\ calls' = Append(calls, Call("signer", Absent, 0, FALSE))
    /\ idx' = 1
    /\ Running(IF Len(hosts) = 0 THEN afterNode(1) ELSE "configure")
    /\ UNCHANGED <<configMap, cluster, resolver, instances, hosts, nodes, prevOk, prevActed, vAddr, vRes, watch>>

\* Lines 186-188: signer.Create fails.
reconcileSignerError ==
    /\ pc = "signer"
    /\ calls' = Append(calls, Call("signer", Absent, 0, FALSE))
    /\ Return("error", Absent)
    /\ UNCHANGED <<configMap, cluster, resolver, instances, hosts, nodes, idx, prevOk,
                   prevActed, vAddr, vRes, watch>>

\* The loop over hosts moves on from index idx to the next host, or to deconfigureInstances.
NextHost ==
    /\ idx' = IF afterHost(idx + 1) = "configure" THEN idx + 1 ELSE 1
    /\ Running(IF afterHost(idx + 1) = "configure" THEN "configure" ELSE afterNode(1))

\* Lines 195-196, 218-225: the host's Node carries the version annotation.
ensureInstanceIsConfiguredSkip ==
    /\ pc = "configure"
    /\ instanceIsConfigured(hosts[idx], nodes)
    /\ calls' = Append(calls, Call("Skip", hosts[idx].Address, 0, TRUE))
    /\ NextHost
    /\ UNCHANGED <<configMap, cluster, resolver, instances, hosts, nodes, prevOk, prevActed, vAddr, vRes, watch>>

\* Lines 228-233: configureInstance is called and returns nil.
ensureInstanceIsConfigured ==
    /\ pc = "configure"
    /\ ~instanceIsConfigured(hosts[idx], nodes)
    /\ cluster' \in configureInstance(cluster, hosts[idx], configureAnnotations(hosts[idx]))
    /\ calls' = Append(calls, Call("Configure", hosts[idx].Address, 0, TRUE))
    /\ NextHost
    /\ UNCHANGED <<configMap, resolver, instances, hosts, nodes, prevOk, prevActed, vAddr, vRes, watch>>

\* configureFailed going on with the next host instead of returning.
configureFailedContinue == NextHost

\* configureFailed leaving the loop for deconfigureInstances instead of returning.
configureFailedDeconfigure ==
    /\ idx' = 1
    /\ Running(afterNode(1))

\* What reconcileNodes does when ensureInstanceIsConfigured returned an error
\* (lines 197-201): it returns the error, wrapped with the host's address.
configureFailed ==
    Return("error", hosts[idx].Address) /\ UNCHANGED idx

\* Lines 228-231: configureInstance returns an error.
ensureInstanceIsConfiguredError ==
    /\ pc = "configure"
    /\ ~instanceIsConfigured(hosts[idx], nodes)
    /\ calls' = Append(calls, Call("Configure", hosts[idx].Address, 0, FALSE))
    /\ configureFailed
    /\ UNCHANGED <<configMap, cluster, resolver, instances, hosts, nodes, prevOk, prevActed, vAddr, vRes, watch>>

\* The loop over nodes.Items moves on from index idx.
NextNode ==
    /\ idx' = idx + 1
    /\ Running(afterNode(idx + 1))

\* Lines 239-247: the Node is not looked at, or has an instance: continue.
deconfigureInstancesContinue ==
    /\ pc = "deconfigure"
    /\ ~hasBYOHAnnotation(nodes[idx]) \/ hasAssociatedInstance(nodes[idx], hosts)
    /\ NextNode
    /\ UNCHANGED <<configMap, cluster, resolver, instances, hosts, nodes, calls, prevOk,
                   prevActed, vAddr, vRes, watch>>

\* Lines 248-251: deconfigureInstance is called and returns nil.
deconfigureInstances ==
    /\ pc = "deconfigure"
    /\ hasBYOHAnnotation(nodes[idx])
    /\ ~hasAssociatedInstance(nodes[idx], hosts)
    /\ cluster' = deconfigureInstance(cluster, nodes[idx])
    /\ calls' = Append(calls, Call("Deconfigure", Absent, nodes[idx].name, TRUE))
    /\ NextNode
    /\ UNCHANGED <<configMap, resolver, instances, hosts, nodes, prevOk, prevActed, vAddr, vRes, watch>>

\* deconfigureInstancesError going on with the next Node instead of returning.
deconfigureInstancesErrorIgnored ==
    /\ pc = "deconfigure"
    /\ hasBYOHAnnotation(nodes[idx])
    /\ ~hasAssociatedInstance(nodes[idx], hosts)
    /\ calls' = Append(calls, Call("Deconfigure", Absent, nodes[idx].name, FALSE))
    /\ NextNode
    /\ UNCHANGED <<configMap, cluster, resolver, instances, hosts, nodes, prevOk,
                   prevActed, vAddr, vRes, watch>>

\* Lines 249-251, 205-207: deconfigureInstance returns an error, and so does the pass.
deconfigureInstancesError ==
    /\ pc = "deconfigure"
    /\ hasBYOHAnnotation(nodes[idx])
    /\ ~hasAssociatedInstance(nodes[idx], hosts)
    /\ calls' = Append(calls, Call("Deconfigure", Absent, nodes[idx].name, FALSE))
    /\ Return("error", Absent)
    /\ UNCHANGED <<configMap, cluster, resolver, instances, hosts, nodes, idx, prevOk,
                   prevActed, vAddr, vRes, watch>>

\* Lines 210-213: prometheusNodeConfig.Configure succeeds and the pass returns nil.
reconcilePrometheus ==
    /\ pc = "prometheus"
    /\ calls' = Append(calls, Call("prometheus", Absent, 0, TRUE))
    /\ Return("ok", Absent)
    /\ UNCHANGED <<configMap, cluster, resolver, instances, hosts, nodes, idx, prevOk,
                   prevActed, vAddr, vRes, watch>>

\* Lines 210-212: prometheusNodeConfig.Configure fails.
reconcilePrometheusError ==
    /\ pc = "prometheus"
    /\ calls' = Append(calls, Call("prometheus", Absent, 0, FALSE))
    /\ Return("error", Absent)
    /\ UNCHANGED <<configMap, cluster, resolver, instances, hosts, nodes, idx, prevOk,
                   prevActed, vAddr, vRes, watch>>

Next ==
    \/ ReconcileGetFound
    \/ ReconcileGetNotFound
    \/ ReconcileGetError
    \/ ensureCreate
    \/ ensureCreateError
    \/ ensureGet
    \/ ensureGetError
    \/ reconcileParseHosts
    \/ reconcileList
    \/ reconcileListError
    \/ reconcileSigner
    \/ reconcileSignerError
    \/ ensureInstanceIsConfiguredSkip
    \/ ensureInstanceIsConfigured
    \/ ensureInstanceIsConfiguredError
    \/ deconfigureInstancesContinue
    \/ deconfigureInstances
    \/ deconfigureInstancesError
    \/ reconcilePrometheus
    \/ reconcilePrometheusError

\* event.CreateEvent, event.UpdateEvent and event.DeleteEvent: a field an event kind
\* does not have holds the event's object (DeleteStateUnknown: FALSE).
Event(source, kind, old, new, unknown) ==
    [source |-> source, kind |-> kind, Object |-> new, ObjectOld |-> old, ObjectNew |-> new,
     DeleteStateUnknown |-> unknown]

NoEvent == Event("none", "none", Absent, Absent, FALSE)

\* ------------------------------------------------------------------ Init
\* The maps with at most n entries, keys from K and values from V.
Records(K, V, n) ==
    UNION {[S -> V] : S \in {T \in SUBSET K : Cardinality(T) <= n}}

\* The Node lists of length at most n; the Node at position i is named i.
NodeLists(n) ==
    UNION {{[i \in 1..k |->
               Node(i, f[i].addrs, f[i].byoh, f[i].version,
                    IF f[i].byoh = Absent THEN <<>> ELSE <<"admin">>)] :
            f \in [1..k -> [addrs : NodeAddresses, byoh : BYOHValues,
                            version : VersionValues]]} : k \in 0..n}

IdleInit ==
    /\ pc = "idle" /\ result = "none" /\ errAddr = Absent
    /\ instances = NoData /\ hosts = <<>> /\ nodes = <<>> /\ idx = 0 /\ calls = <<>>
    /\ prevOk = FALSE /\ prevActed = FALSE
    /\ vAddr = Absent /\ vRes = [err |-> "nil", lookup |-> FALSE]
    /\ cancelled = FALSE
    /\ event = NoEvent /\ requests = <<>>
    /\ boot = [pc |-> "idle", calls |-> <<>>, result |-> "none"]

\* Keys and values of the ConfigMaps the passes of Spec start from.
SpecKeys == {"10.0.0.5", "10.0.0.6", "::1"}
SpecValues == {<<"username", "=", "admin">>}

Init ==
    /\ IdleInit
    /\ configMap \in {[exists |-> FALSE, data |-> NoData]} \cup
                     {[exists |-> TRUE, data |-> d] : d \in Records(SpecKeys, SpecValues, MaxEntries)}
    /\ cluster \in NodeLists(MaxNodes)
    /\ resolver = [a \in NonLiterals |-> "err"]

Spec == Init /\ [][Next]_vars

\* ------------------------------------------------------------- SpecParse
\* The passes over every small ConfigMap: any key, any value, the DNS answering for
\* host.example in every way.
ParseKeys == {"10.0.0.5", "::1", "host.example", "999.999.999.999"}
ParseResolvers ==
    {[a \in NonLiterals |-> IF a = "host.example" THEN o ELSE "err"] : o \in LookupOutcomes}

InitParse ==
    /\ IdleInit
    /\ configMap \in {[exists |-> FALSE, data |-> NoData]} \cup
                     {[exists |-> TRUE, data |-> d] : d \in Records(ParseKeys, Values, MaxEntries)}
    /\ cluster \in NodeLists(1)
    /\ resolver \in ParseResolvers

SpecParse == InitParse /\ [][Next]_vars

\* ---------------------------------------------------------- SpecValidate
\* validateAddress applied to every address, under every answer of the DNS.
validateAddressCall ==
    /\ \E a \in Addresses :
         /\ vAddr' = a
         /\ vRes' = validateAddress(a, resolver)
    /\ UNCHANGED <<configMap, cluster, resolver, pc, instances, hosts, nodes, idx, calls,
                   result, errAddr, prevOk, prevActed, watch>>

InitValidate ==
    /\ IdleInit
    /\ configMap = [exists |-> FALSE, data |-> NoData]
    /\ cluster = <<>>
    /\ resolver \in [NonLiterals -> LookupOutcomes]

NextValidate == validateAddressCall

SpecValidate == InitValidate /\ [][NextValidate]_vars

\* ---------------------------------------------------------------- events
\* r.watchNamespace, and the namespaces and names of the ConfigMaps that get events.
watchNamespace == "openshift-windows-machine-config-operator"
InstanceConfigMap == "windows-instances"
Namespaces == {watchNamespace, "default", "kube-system"}
Names == {InstanceConfigMap, "windows-services", "kube-root-ca.crt"}

\* A ConfigMap as the predicates see it.
ConfigMapObject(namespace, name, data) == [namespace |-> namespace, name |-> name, data |-> data]

\* isValidConfigMap (lines 313-315).
isValidConfigMap(o) == o.namespace = watchNamespace /\ o.name = InstanceConfigMap

\* The three functions of configMapPredicate (lines 290-304).
CreateFunc(e) == isValidConfigMap(e.Object)

UpdateFunc(e) == isValidConfigMap(e.ObjectNew)

\* DeleteFunc without the test of DeleteStateUnknown.
DeleteFuncUnknownToo(e) == isValidConfigMap(e.Object)

DeleteFunc(e) == IF e.DeleteStateUnknown THEN FALSE ELSE isValidConfigMap(e.Object)

configMapPredicate(e) ==
    CASE e.kind = "Create" -> CreateFunc(e)
      [] e.kind = "Update" -> UpdateFunc(e)
      [] e.kind = "Delete" -> DeleteFunc(e)

\* A reconcile.Request.
Request(namespace, name) == [Namespace |-> namespace, Name |-> name]

\* What For(&core.ConfigMap{}) enqueues for an event that passed the predicate: the
\* request of the object itself.
enqueueRequestForObject(e) ==
    LET o == IF e.kind = "Update" THEN e.ObjectNew ELSE e.Object IN
    <<Request(o.namespace, o.name)>>

\* mapToConfigMap answering only for an object that carries the version annotation.
mapToConfigMapConfiguredOnly(o) ==
    IF o.version = Absent THEN <<>> ELSE <<Request(watchNamespace, InstanceConfigMap)>>

\* mapToConfigMap (lines 282-286): the object is not looked at.
mapToConfigMap(o) == <<Request(watchNamespace, InstanceConfigMap)>>

\* windowsNodePredicate(byoh): the Nodes whose marker is "true" (byoh), or the others.
windowsNodePredicate(byoh, node) == (node.byoh = "true") = byoh

ConfigMapObjects ==
    {ConfigMapObject(ns, n, d) :
        ns \in Namespaces, n \in Names,
        d \in {NoData, [a \in {"10.0.0.5"} |-> <<"username", "=", "admin">>]}}

EventKinds == {"Create", "Update", "Delete"}

\* The events on ConfigMaps. The predicate functions take any event, so the two
\* objects of an update are independent.
ConfigMapEvents ==
    {Event("ConfigMap", "Create", o, o, FALSE) : o \in ConfigMapObjects}
    \cup {Event("ConfigMap", "Update", old, new, FALSE) :
              old \in ConfigMapObjects, new \in ConfigMapObjects}
    \cup {Event("ConfigMap", "Delete", o, o, u) : o \in ConfigMapObjects, u \in BOOLEAN}

NodeObjects ==
    {Node(name, addrs, byoh, version, IF byoh = Absent THEN <<>> ELSE <<"admin">>) :
        name \in 1..2, addrs \in NodeAddresses, byoh \in BYOHValues, version \in VersionValues}

NodeEvents == {Event("Node", kind, o, o, FALSE) : kind \in EventKinds, o \in NodeObjects}

\* An event on a ConfigMap reaches the source set up by For (line 306).
configMapEvent ==
    /\ \E e \in ConfigMapEvents :
         /\ event' = e
         /\ requests' = IF configMapPredicate(e) THEN enqueueRequestForObject(e) ELSE <<>>
    /\ UNCHANGED <<configMap, cluster, resolver, pc, instances, hosts, nodes, idx, calls,
                   result, errAddr, prevOk, prevActed, vAddr, vRes, cancelled, boot>>

\* An event on a Node reaches the source set up by Watches (lines 307-308).
nodeEvent ==
    /\ \E e \in NodeEvents :
         /\ event' = e
         /\ requests' = IF windowsNodePredicate(TRUE, e.Object)
                        THEN mapToConfigMap(e.Object) ELSE <<>>
    /\ UNCHANGED <<configMap, cluster, resolver, pc, instances, hosts, nodes, idx, calls,
                   result, errAddr, prevOk, prevActed, vAddr, vRes, cancelled, boot>>

InitWatch ==
    /\ IdleInit
    /\ configMap = [exists |-> FALSE, data |-> NoData]
    /\ cluster = <<>>
    /\ resolver = [a \in NonLiterals |-> "err"]

NextWatch == configMapEvent \/ nodeEvent

SpecWatch == InitWatch /\ [][NextWatch]_vars

\* ---------------------------------------------------------------- bootup
\* EnsureWindowsInstancesConfigMap (lines 342-368), called when the operator boots;
\* the operator may boot again once the call has returned.
bootReturn(log, res) == boot' = [pc |-> "done", calls |-> log, result |-> res]

bootIdle == boot.pc \in {"idle", "done"}

bootRest == <<cluster, resolver, pc, instances, hosts, nodes, idx, calls, result, errAddr,
              prevOk, prevActed, vAddr, vRes, cancelled, event, requests>>

\* Lines 343-345: cfg is nil.
EnsureWindowsInstancesConfigMapNilConfig ==
    /\ bootIdle
    /\ bootReturn(<<>>, "error")
    /\ UNCHANGED <<configMap, bootRest>>

\* Lines 348-351: kubernetes.NewForConfig fails.
EnsureWindowsInstancesConfigMapClientError ==
    /\ bootIdle
    /\ bootReturn(<<Call("NewForConfig", Absent, 0, FALSE)>>, "error")
    /\ UNCHANGED <<configMap, bootRest>>

\* EnsureWindowsInstancesConfigMapGetFound creating the ConfigMap anew all the same.
EnsureWindowsInstancesConfigMapReplace ==
    /\ bootIdle
    /\ configMap.exists
    /\ configMap' = [exists |-> TRUE, data |-> NoData]
    /\ bootReturn(<<Call("Get", Absent, 0, TRUE), Call("Create", Absent, 0, TRUE)>>, "ok")
    /\ UNCHANGED bootRest

\* Lines 354-355, 367: the Get finds the ConfigMap.
EnsureWindowsInstancesConfigMapGetFound ==
    /\ bootIdle
    /\ configMap.exists
    /\ bootReturn(<<Call("Get", Absent, 0, TRUE)>>, "ok")
    /\ UNCHANGED <<configMap, bootRest>>

\* Lines 354-358: the Get answers "not found".
EnsureWindowsInstancesConfigMapGetNotFound ==
    /\ bootIdle
    /\ ~configMap.exists
    /\ boot' = [pc |-> "Create", calls |-> <<Call("Get", Absent, 0, FALSE)>>, result |-> "none"]
    /\ UNCHANGED <<configMap, bootRest>>

\* Lines 354-356, 367: the Get fails with another error.
EnsureWindowsInstancesConfigMapGetError ==
    /\ bootIdle
    /\ bootReturn(<<Call("Get", Absent, 0, FALSE)>>, "error")
    /\ UNCHANGED <<configMap, bootRest>>

\* Lines 359-367: the Create succeeds.
EnsureWindowsInstancesConfigMapCreate ==
    /\ boot.pc = "Create"
    /\ ~configMap.exists
    /\ configMap' = [exists |-> TRUE, data |-> NoData]
    /\ bootReturn(Append(boot.calls, Call("Create", Absent, 0, TRUE)), "ok")
    /\ UNCHANGED bootRest

\* Lines 359-362: the Create fails.
EnsureWindowsInstancesConfigMapCreateError ==
    /\ boot.pc = "Create"
    /\ bootReturn(Append(boot.calls, Call("Create", Absent, 0, FALSE)), "error")
    /\ UNCHANGED <<configMap, bootRest>>

InitEnsure ==
    /\ IdleInit
    /\ configMap \in {[exists |-> FALSE, data |-> NoData]} \cup
                     {[exists |-> TRUE, data |-> d] : d \in Records(SpecKeys, SpecValues, 1)}
    /\ cluster \in NodeLists(1)
    /\ resolver = [a \in NonLiterals |-> "err"]

NextEnsure ==
    \/ Next
    \/ EnsureWindowsInstancesConfigMapNilConfig
    \/ EnsureWindowsInstancesConfigMapClientError
    \/ EnsureWindowsInstancesConfigMapGetFound
    \/ EnsureWindowsInstancesConfigMapGetNotFound
    \/ EnsureWindowsInstancesConfigMapGetError
    \/ EnsureWindowsInstancesConfigMapCreate
    \/ EnsureWindowsInstancesConfigMapCreateError

SpecEnsure == InitEnsure /\ [][NextEnsure]_vars

\* -------------------------------------------------------------------- race
\* Someone else creates the ConfigMap, with or without entries, while it is absent:
\* possibly between the Get and the Create of ensure or of the bootup call.
externalCreate ==
    /\ ~configMap.exists
    /\ \E d \in Records(SpecKeys, SpecValues, 1) : configMap' = [exists |-> TRUE, data |-> d]
    /\ UNCHANGED <<cluster, resolver, pc, instances, hosts, nodes, idx, calls, result, errAddr,
                   prevOk, prevActed, vAddr, vRes, watch>>

InitRace ==
    /\ IdleInit
    /\ configMap = [exists |-> FALSE, data |-> NoData]
    /\ cluster \in NodeLists(1)
    /\ resolver = [a \in NonLiterals |-> "err"]

NextRace == NextEnsure \/ externalCreate

SpecRace == InitRace /\ [][NextRace]_vars

\* ------------------------------------------------------------ cancellation
\* The ctx given to Reconcile is cancelled.
Cancel ==
    /\ ~cancelled
    /\ cancelled' = TRUE
    /\ UNCHANGED <<configMap, cluster, resolver, pc, instances, hosts, nodes, idx, calls,
                   result, errAddr, prevOk, prevActed, vAddr, vRes, event, requests, boot>>

NextCancel == Next \/ Cancel

SpecCancel == InitEnsure /\ [][NextCancel]_vars

\* -------------------------------------------------------------- provenance
\* The passes that start from a cluster on which no Node carries the marker, the
\* ConfigMap losing entries between passes.
removeInstance ==
    /\ pc = "idle"
    /\ configMap.exists
    /\ \E a \in DOMAIN configMap.data :
         configMap' = [configMap EXCEPT !.data = [b \in DOMAIN configMap.data \ {a} |->
                                                      configMap.data[b]]]
    /\ UNCHANGED <<cluster, resolver, pc, instances, hosts, nodes, idx, calls, result, errAddr,
                   prevOk, prevActed, vAddr, vRes, watch>>

InitProvenance ==
    /\ IdleInit
    /\ configMap \in {[exists |-> FALSE, data |-> NoData]} \cup
                     {[exists |-> TRUE, data |-> d] : d \in Records(SpecKeys, SpecValues, MaxEntries)}
    /\ cluster \in {cl \in NodeLists(MaxNodes) : \A k \in 1..Len(cl) : cl[k].byoh = Absent}
    /\ resolver = [a \in NonLiterals |-> "err"]

NextProvenance == Next \/ removeInstance

SpecProvenance == InitProvenance /\ [][NextProvenance]_vars

\* ---------------------------------------------------------------- liveness
\* The passes over a ConfigMap that stays as it is and parses: Reconcile is called again
\* and again (the controller requeues a failed pass, and the Node events of a pass that
\* changed the cluster enqueue a request), and a pass that was started goes on.
LiveKeys == {"10.0.0.5", "10.0.0.6"}

InitLive ==
    /\ IdleInit
    /\ configMap \in {[exists |-> FALSE, data |-> NoData]} \cup
                     {[exists |-> TRUE, data |-> d] : d \in Records(LiveKeys, SpecValues, 2)}
    /\ cluster \in NodeLists(2)
    /\ resolver = [a \in NonLiterals |-> "err"]

SpecLive == InitLive /\ [][Next]_vars /\ WF_vars(Next)

\* ================================================================ claims
CallIdx == 1..Len(calls)
Made(op) == {i \in CallIdx : calls[i].op = op}
PassReturned == pc = "idle" /\ result /= "none"
Listed == \E i \in Made("List") : calls[i].ok
HostAddresses == {hosts[k].Address : k \in 1..Len(hosts)}
NoSharedAddress(cl) ==
    \A i, j \in 1..Len(cl) : i /= j => cl[i].addrs \cap cl[j].addrs = {}
\* The Nodes of the snapshot with no desired address: the stale ones.
Stale(node) == ~hasAssociatedInstance(node, hosts)

\* C1 (as claimed): when the previous pass returned nil and nothing changed, the
\* running pass makes no configureInstance and no deconfigureInstance call.
C1_SecondPassMakesNoCall ==
    prevOk => ~Provisioned(calls)

\* C1 (amended): the same, for the Node lists in which no address is exposed by two
\* Nodes when the second pass lists them.
C1_SecondPassMakesNoCallDisjoint ==
    (prevOk /\ NoSharedAddress(nodes)) => ~Provisioned(calls)

\* A second pass that returned nil after a first one that configured or deconfigured,
\* every desired host skipped.
C1_Witness ==
    /\ prevOk /\ prevActed /\ PassReturned /\ result = "ok"
    /\ Len(hosts) > 0 /\ Len(nodes) > 1 /\ NoSharedAddress(nodes)
    /\ Cardinality(Made("Skip")) = Len(hosts)

\* C2 (as claimed): in a pass that returned nil, every desired address got exactly one
\* Configure or Skip decision, every Node of the actual set (marker "true") with no
\* desired address got exactly one Deconfigure, and no decision has another target.
C2_DecisionsCoverDesiredAndActual ==
    (PassReturned /\ result = "ok" /\ Listed) =>
        /\ \A a \in HostAddresses :
             Cardinality({i \in Made("Configure") \cup Made("Skip") : calls[i].addr = a}) = 1
        /\ \A i \in Made("Configure") \cup Made("Skip") : calls[i].addr \in HostAddresses
        /\ \A k \in 1..Len(nodes) :
             LET n == Cardinality({i \in Made("Deconfigure") : calls[i].node = nodes[k].name})
             IN IF isBYOHNode(nodes[k]) /\ Stale(nodes[k]) THEN n = 1 ELSE n = 0

\* C3: a failed configureInstance call is the last call of its pass; the pass has
\* returned an error naming that host's address; the hosts configured before it keep
\* a Node with the version annotation and the marker.
C3_ConfigureFailsFast ==
    \A i \in Made("Configure") :
        ~calls[i].ok =>
            /\ i = Len(calls)
            /\ PassReturned /\ result = "error" /\ errAddr = calls[i].addr
            /\ \A j \in Made("Configure") :
                 j < i => \E k \in 1..Len(cluster) :
                             /\ calls[j].addr \in cluster[k].addrs
                             /\ cluster[k].version /= Absent
                             /\ cluster[k].byoh = "true"

\* The first of two hosts failed: the second was never attempted.
C3_Witness ==
    /\ PassReturned /\ Len(hosts) = 2 /\ idx = 1
    /\ \E i \in Made("Configure") : ~calls[i].ok /\ calls[i].addr = hosts[1].Address
    /\ \A i \in CallIdx : calls[i].addr /= hosts[2].Address

\* C4 (as claimed): when a pass has returned and deconfigureInstance failed for a stale
\* managed Node M1, deconfigureInstance was called in that pass for every other stale
\* managed Node M2 (no address in common with M1).
C4_EveryStaleNodeIsAttempted ==
    PassReturned =>
        \A m1, m2 \in 1..Len(nodes) :
            (/\ m1 /= m2
             /\ nodes[m1].addrs \cap nodes[m2].addrs = {}
             /\ isBYOHNode(nodes[m1]) /\ Stale(nodes[m1])
             /\ isBYOHNode(nodes[m2]) /\ Stale(nodes[m2])
             /\ \E i \in Made("Deconfigure") : calls[i].node = nodes[m1].name /\ ~calls[i].ok)
            => \E i \in Made("Deconfigure") : calls[i].node = nodes[m2].name

\* C5: every deconfigureInstance call comes after a successful Configure or Skip
\* decision for every host, and a pass with a failed Configure has none.
C5_DeconfigureAfterAllHosts ==
    /\ \A i \in Made("Deconfigure") :
         /\ \A a \in HostAddresses :
              \E j \in Made("Configure") \cup Made("Skip") :
                  j < i /\ calls[j].addr = a /\ calls[j].ok
         /\ \A j \in Made("Configure") \cup Made("Skip") : j < i
    /\ (\E j \in Made("Configure") : ~calls[j].ok) => Made("Deconfigure") = {}

\* A Node was deconfigured in a pass that configured one host and skipped another.
C5_Witness ==
    /\ Made("Deconfigure") /= {}
    /\ Made("Configure") /= {} /\ Made("Skip") /= {}
    /\ Len(hosts) = 2

\* C6: with no host parsed and no Node marked "true" in the list, the pass has returned
\* nil right after the List: no signer, no configureInstance, no deconfigureInstance
\* and no Prometheus call.
C6_EmptyEmptyIsNoOp ==
    (Listed /\ Len(hosts) = 0 /\ \A k \in 1..Len(nodes) : nodes[k].byoh /= "true") =>
        /\ PassReturned /\ result = "ok"
        /\ Made("signer") = {} /\ Made("Configure") = {} /\ Made("Deconfigure") = {}
        /\ Made("prometheus") = {}
        /\ calls[Len(calls)].op = "List"

\* An empty-empty pass over a list that holds a Node marked "false" and an unmarked one.
C6_Witness ==
    /\ Listed /\ Len(hosts) = 0 /\ PassReturned
    /\ \A k \in 1..Len(nodes) : nodes[k].byoh /= "true"
    /\ \E k \in 1..Len(nodes) : nodes[k].byoh = "false"
    /\ \E k \in 1..Len(nodes) : nodes[k].byoh = Absent

\* C10: a pass that listed the Nodes and found a host or a Node marked "true" creates
\* the signer exactly once, before any configureInstance or deconfigureInstance call;
\* no pass creates it twice; when signer.Create fails the pass has returned an error
\* without a configureInstance, deconfigureInstance or Prometheus call.
C10_SignerGatesProvisioning ==
    /\ Cardinality(Made("signer")) <= 1
    /\ (Listed /\ ~nothingToReconcile(hosts, nodes) /\ pc /= "signer") =>
           Cardinality(Made("signer")) = 1
    /\ \A i \in Made("Configure") \cup Made("Deconfigure") \cup Made("prometheus") :
           \E j \in Made("signer") : j < i /\ calls[j].ok
    /\ \A j \in Made("signer") :
           ~calls[j].ok =>
               /\ PassReturned /\ result = "error"
               /\ Made("Configure") \cup Made("Deconfigure") \cup Made("prometheus") = {}

\* signer.Create failed in a pass with a host to configure and a Node to deconfigure.
C10_Witness ==
    /\ PassReturned /\ result = "error"
    /\ \E j \in Made("signer") : ~calls[j].ok
    /\ Len(hosts) > 0
    /\ \E k \in 1..Len(nodes) : isBYOHNode(nodes[k]) /\ Stale(nodes[k])

\* A value of the form username=<name>: the first token "username", exactly one "=".
WellFormedValue(v) ==
    /\ Len(v) >= 2 /\ v[1] = "username" /\ v[2] = "="
    /\ \A i \in 3..Len(v) : v[i] /= "="
ParseDone == pc \notin {"ensureCreate", "ensureGet", "parseHosts"}
InvalidAddress(a) == validateAddress(a, resolver).err /= "nil"

\* C7 (as claimed): once parseHosts has run on a record with an entry whose address
\* fails validation or whose value is malformed, the pass has returned an error and
\* made no List, signer, configureInstance or deconfigureInstance call.
C7_OneBadEntryFailsThePass ==
    (ParseDone /\ \E a \in DOMAIN instances :
                      InvalidAddress(a) \/ ~WellFormedValue(instances[a])) =>
        /\ PassReturned /\ result = "error"
        /\ Made("List") \cup Made("signer") \cup Made("Configure") \cup Made("Deconfigure") = {}

\* C8 (as claimed): every descriptor of hosts comes from a value username=<name> with
\* exactly one "="; parseHosts does not crash; and on a record of valid addresses with
\* a value of another form it has returned an error naming such an entry.
C8_OnlyUsernameEqualsNameIsParsed ==
    /\ \A k \in 1..Len(hosts) : WellFormedValue(instances[hosts[k].Address])
    /\ result /= "panic"
    /\ (/\ ParseDone
        /\ \A a \in DOMAIN instances : ~InvalidAddress(a)
        /\ \E a \in DOMAIN instances : ~WellFormedValue(instances[a]))
       => /\ PassReturned /\ result = "error" /\ Made("List") = {}
          /\ errAddr \in DOMAIN instances /\ ~WellFormedValue(instances[errAddr])

\* C9 (as claimed): validateAddress returns nil exactly for an IPv4 literal and for a
\* non-literal that resolves to at least one address; an IPv6 literal gets the
\* "ipv6 is not supported" error with no lookup; a non-literal whose lookup fails or
\* is empty gets a lookup error.
WrittenAsIPv4(a) == a \in IPv4Literals
WrittenAsIPv6(a) == a \in IPv6Literals \cup IPv4MappedLiterals
C9_ValidateAddressDecision ==
    vAddr /= Absent =>
        /\ (vRes.err = "nil") <=>
               \/ WrittenAsIPv4(vAddr)
               \/ vAddr \in NonLiterals /\ resolver[vAddr] = "addrs"
        /\ WrittenAsIPv6(vAddr) => vRes.err = "ipv6 is not supported" /\ ~vRes.lookup
        /\ (vAddr \in NonLiterals /\ resolver[vAddr] /= "addrs") =>
               vRes.err \in {"error looking up DNS", "DNS did not resolve to an address"}

\* The Nodes of the snapshot that expose address a, in list order.
Exposing(a) == {k \in 1..Len(nodes) : a \in nodes[k].addrs}

\* C11 (as claimed): configureInstance is never called for an address that a Node of
\* the pass's list exposes while carrying the version annotation, whatever the number
\* of Nodes exposing it and whether or not that Node carries the marker.
C11_ConfiguredAddressIsNeverConfigured ==
    \A i \in Made("Configure") :
        \A k \in Exposing(calls[i].addr) : nodes[k].version = Absent

\* C11 (amended): configureInstance is never called for an address when the first Node
\* of the pass's list that exposes it carries the version annotation, with or without
\* the marker; such a host gets a Skip decision.
C11_FirstMatchConfiguredIsNeverConfigured ==
    /\ \A i \in Made("Configure") :
         \A k \in Exposing(calls[i].addr) :
             nodes[k].version /= Absent => \E j \in Exposing(calls[i].addr) : j < k
    /\ \A k \in 1..Len(hosts) :
         LET a == hosts[k].Address IN
         (/\ pc = "idle" /\ result = "ok" /\ Exposing(a) /= {}
          /\ \A j \in Exposing(a) : nodes[j].version /= Absent)
         => \E i \in Made("Skip") : calls[i].addr = a

\* After a pass that configured a host, the next pass skipped both hosts, one of them on
\* a Node that carries the version annotation and no marker.
C11_Witness ==
    /\ prevActed /\ PassReturned /\ result = "ok"
    /\ Len(hosts) = 2 /\ Cardinality(Made("Skip")) = 2
    /\ \E i \in Made("Skip") :
         /\ Cardinality(Exposing(calls[i].addr)) = 1
         /\ \A k \in Exposing(calls[i].addr) :
              nodes[k].version /= Absent /\ nodes[k].byoh = Absent

\* C12 (as claimed): deconfigureInstance is only called on a Node whose marker is
\* present with the value "true", the test that selects byohNodes.
C12_DeconfigureOnlyMarkedTrue ==
    \A i \in Made("Deconfigure") :
        \A k \in 1..Len(nodes) : nodes[k].name = calls[i].node => isBYOHNode(nodes[k])

\* ensure's first Get answered "not found" in the running pass.
NotFoundAnswered ==
    /\ Len(calls) >= 1 /\ ~calls[1].ok
    /\ pc = "ensureCreate" \/ Len(calls) > 1

\* C13: in a pass whose first Get answered "not found", an error is returned only when a
\* later call failed; the ConfigMap that ensure created is empty, and so are the Data
\* the pass works on and its hosts; configureInstance is never called; and when the
\* pass has returned nil, deconfigureInstance was called exactly once, with success,
\* for every Node of the list whose marker is "true".
C13_AbsentConfigMapMeansEmptyDesiredSet ==
    NotFoundAnswered =>
        /\ (PassReturned /\ result /= "ok") =>
               result = "error" /\ \E i \in CallIdx : i > 1 /\ ~calls[i].ok
        /\ (\E i \in Made("Create") : calls[i].ok) =>
               configMap = [exists |-> TRUE, data |-> NoData]
        /\ instances = NoData /\ hosts = <<>>
        /\ Made("Configure") \cup Made("Skip") = {}
        /\ (PassReturned /\ result = "ok") =>
               \A k \in 1..Len(nodes) :
                   isBYOHNode(nodes[k]) =>
                       /\ Cardinality({i \in Made("Deconfigure") :
                                           calls[i].node = nodes[k].name}) = 1
                       /\ \A i \in Made("Deconfigure") : calls[i].ok

\* A pass that found no ConfigMap, created it and returned nil after deconfiguring two
\* Nodes marked "true".
C13_Witness ==
    /\ NotFoundAnswered /\ PassReturned /\ result = "ok"
    /\ Len(nodes) = 2 /\ \A k \in 1..Len(nodes) : isBYOHNode(nodes[k])
    /\ Cardinality(Made("Deconfigure")) = 2

\* The call appended to a log in this step, if any.
Appended(log, log2) == Len(log2) > 0 /\ log2 /= log
NotFoundFirst(log) == Len(log) >= 1 /\ log[1].op = "Get" /\ ~log[1].ok

\* C14: in every step of ensure and of EnsureWindowsInstancesConfigMap, a ConfigMap that
\* exists is left as it is; the ConfigMap changes only by being created empty, by a
\* Create that succeeds; and a call issues a Create only after its Get answered "not
\* found", and at most one.
C14_EnsureIsCreateIfAbsent ==
    [][/\ configMap.exists => configMap' = configMap
       /\ configMap' /= configMap =>
              /\ configMap' = [exists |-> TRUE, data |-> NoData]
              /\ \/ Appended(calls, calls') /\ calls'[Len(calls')] = Call("Create", Absent, 0, TRUE)
                 \/ /\ Appended(boot.calls, boot'.calls)
                    /\ boot'.calls[Len(boot'.calls)] = Call("Create", Absent, 0, TRUE)
       /\ (Appended(calls, calls') /\ calls'[Len(calls')].op = "Create") =>
              /\ NotFoundFirst(calls') /\ pc = "ensureCreate"
              /\ Made("Create") = {}
       /\ (Appended(boot.calls, boot'.calls) /\ boot'.calls[Len(boot'.calls)].op = "Create") =>
              /\ NotFoundFirst(boot'.calls) /\ boot.pc = "Create"
              /\ \A i \in 1..Len(boot.calls) : boot.calls[i].op /= "Create"
      ]_vars

\* A pass of Reconcile found no ConfigMap, created it and returned nil; the bootup call
\* that came after the Create found the ConfigMap and issued no Create.
C14_Witness ==
    /\ NotFoundAnswered /\ PassReturned /\ result = "ok"
    /\ \E i \in Made("Create") : calls[i].ok
    /\ boot = [pc |-> "done", calls |-> <<Call("Get", Absent, 0, TRUE)>>, result |-> "ok"]
    /\ configMap = [exists |-> TRUE, data |-> NoData]

\* The identity the event filter compares with.
TrackingIdentity(o) == o.namespace = watchNamespace /\ o.name = InstanceConfigMap

\* C15: an event on a ConfigMap enqueues a request exactly when the namespace and name
\* of its object (of the new object, for an update) are the watch namespace and
\* windows-instances and, for a delete, DeleteStateUnknown is not set; the request is
\* the one of that identity.
C15_ConfigMapEventFilter ==
    event.source = "ConfigMap" =>
        LET o == IF event.kind = "Update" THEN event.ObjectNew ELSE event.Object
            passes == /\ TrackingIdentity(o)
                      /\ event.kind = "Delete" => ~event.DeleteStateUnknown
        IN /\ passes <=> requests /= <<>>
           /\ passes => requests = <<Request(watchNamespace, InstanceConfigMap)>>

\* A delete of windows-instances with DeleteStateUnknown set was dropped.
C15_Witness ==
    /\ event.source = "ConfigMap" /\ event.kind = "Delete" /\ event.DeleteStateUnknown
    /\ TrackingIdentity(event.Object)
    /\ requests = <<>>

\* C16: an event on a Node whose marker is "true" enqueues exactly one request, the one
\* of (watch namespace, windows-instances), whatever the Node.
C16_NodeEventIsRemapped ==
    (event.source = "Node" /\ event.Object.byoh = "true") =>
        /\ Len(requests) = 1
        /\ requests[1] = Request(watchNamespace, InstanceConfigMap)

\* The event of the Node named 2, marked "true" and exposing two addresses, enqueued
\* the request of windows-instances.
C16_Witness ==
    /\ event.source = "Node" /\ event.Object.byoh = "true"
    /\ event.Object.name = 2 /\ Cardinality(event.Object.addrs) = 2
    /\ requests = <<Request(watchNamespace, InstanceConfigMap)>>

\* A call that failed: every call that did not succeed but the Get answered "not found".
Failed(i) == ~calls[i].ok /\ ~(i = 1 /\ NotFoundAnswered)

\* C17: prometheusNodeConfig.Configure is called at most once in a pass, as its last
\* call, after calls that all succeeded; and a pass that has returned after loading the
\* signer with no failed configureInstance or deconfigureInstance call has called it.
C17_PrometheusAfterSuccessfulPass ==
    /\ Cardinality(Made("prometheus")) <= 1
    /\ \A i \in Made("prometheus") :
         /\ i = Len(calls) /\ PassReturned
         /\ \A j \in 1..(i - 1) : ~Failed(j)
         /\ Listed /\ \E j \in Made("signer") : j < i
         /\ \A a \in HostAddresses :
              \E j \in Made("Configure") \cup Made("Skip") : j < i /\ calls[j].addr = a
    /\ (/\ PassReturned
        /\ \E j \in Made("signer") : calls[j].ok
        /\ \A j \in Made("Configure") \cup Made("Deconfigure") : calls[j].ok)
       => Cardinality(Made("prometheus")) = 1

\* A pass that configured, skipped and deconfigured, then called Prometheus and
\* returned nil.
C17_Witness ==
    /\ PassReturned /\ result = "ok" /\ Made("prometheus") /= {}
    /\ Made("Configure") /= {} /\ Made("Skip") /= {} /\ Made("Deconfigure") /= {}

\* parseHosts does not return the hosts of the Data the pass works on.
ParseFails ==
    \E order \in Orders(DOMAIN instances) : parseHosts(instances, order, resolver).out /= "ok"

\* C18 (as claimed): a pass that has ended returned an error exactly when one of its
\* steps failed: a call of ensure, the parsing, the List, the signer, a
\* configureInstance, a deconfigureInstance or the Prometheus call.
C18_ErrorIffAStepFailed ==
    (pc = "idle" /\ result /= "none") =>
        (result = "error" <=> (ParseFails \/ \E i \in CallIdx : Failed(i)))

\* The call a step appends to the pass's log completed without an error.
CompletesNormally ==
    /\ Appended(calls, calls')
    /\ calls'[Len(calls')].op \in {"Get", "Create", "List", "signer"}
    /\ calls'[Len(calls')].ok \/ pc' = "ensureCreate"

\* C19 (as claimed): once the ctx of Reconcile is cancelled, no Get, Create, List or
\* signer.Create call of the pass completes without an error, and no pass returns nil.
C19_CancelledCallsAbort ==
    [][cancelled => /\ ~CompletesNormally
                    /\ ~(pc /= "idle" /\ pc' = "idle" /\ result' = "ok")]_vars

\* The step is a call of configureInstance that returned nil.
ConfigureReturnedNil ==
    /\ pc = "configure"
    /\ calls' = Append(calls, Call("Configure", hosts[idx].Address, 0, TRUE))

\* C20: in every step, a Node that carries the marker "true" afterwards carried it
\* before, or the step is a configureInstance call that returned nil for an address the
\* Node exposes; such a call leaves a Node that exposes the address with the marker
\* "true" and the username of the host; and no Node's addresses change.
C20_MarkerComesFromConfigure ==
    [][/\ \A k \in 1..Len(cluster') :
            isBYOHNode(cluster'[k]) =>
                \/ \E j \in 1..Len(cluster) :
                       cluster[j].name = cluster'[k].name /\ isBYOHNode(cluster[j])
                \/ /\ ConfigureReturnedNil
                   /\ hosts[idx].Address \in cluster'[k].addrs
                   /\ cluster'[k].username = hosts[idx].Username
       /\ ConfigureReturnedNil =>
              \E k \in 1..Len(cluster') :
                  /\ hosts[idx].Address \in cluster'[k].addrs
                  /\ cluster'[k].byoh = "true"
                  /\ cluster'[k].username = hosts[idx].Username
       /\ \A k \in 1..Len(cluster') : \A j \in 1..Len(cluster) :
              cluster[j].name = cluster'[k].name => cluster[j].addrs = cluster'[k].addrs
      ]_vars

\* Two Nodes that carried no marker carry the marker "true" after a pass that
\* configured two hosts and returned nil.
C20_Witness ==
    /\ PassReturned /\ result = "ok" /\ Cardinality(Made("Configure")) = 2
    /\ Len(nodes) = 2 /\ \A k \in 1..Len(nodes) : nodes[k].byoh = Absent
    /\ Len(cluster) = 2 /\ \A k \in 1..Len(cluster) : isBYOHNode(cluster[k])

\* C21: deconfigureInstance is never called on a Node of the pass's list that exposes the
\* address of one of the pass's hosts, whatever the number of its other addresses.
C21_DesiredHostIsNeverDeconfigured ==
    \A i \in Made("Deconfigure") :
        \A k \in 1..Len(nodes) :
            nodes[k].name = calls[i].node => nodes[k].addrs \cap HostAddresses = {}

\* A pass deconfigured a stale Node and left alone a marked Node with two addresses, one
\* of them a host's.
C21_Witness ==
    /\ PassReturned /\ result = "ok" /\ Cardinality(Made("Deconfigure")) = 1
    /\ \E k \in 1..Len(nodes) :
         /\ hasBYOHAnnotation(nodes[k])
         /\ Cardinality(nodes[k].addrs) = 2
         /\ Cardinality(nodes[k].addrs \cap HostAddresses) = 1
         /\ \A i \in Made("Deconfigure") : calls[i].node /= nodes[k].name

\* C23: from an absent ConfigMap, with ensure, the bootup call and another creator
\* interleaved: a ConfigMap that exists is never written again, so one Create takes
\* effect; a Create of ensure issued when the ConfigMap exists fails, and Reconcile
\* returns an error without the ConfigMap's Data; a Create of the bootup call issued when
\* the ConfigMap exists fails, and the call returns an error.
C23_LoserReturnsTheCreateError ==
    [][/\ configMap.exists => configMap' = configMap
       /\ (/\ Appended(calls, calls') /\ calls'[Len(calls')].op = "Create"
           /\ configMap.exists)
          => /\ ~calls'[Len(calls')].ok
             /\ pc' = "idle" /\ result' = "error"
             /\ instances' = NoData
       /\ (/\ Appended(boot.calls, boot'.calls)
           /\ boot'.calls[Len(boot'.calls)].op = "Create"
           /\ configMap.exists)
          => /\ ~boot'.calls[Len(boot'.calls)].ok
             /\ boot'.pc = "done" /\ boot'.result = "error"
       /\ (/\ Appended(calls, calls') /\ calls'[Len(calls')] = Call("Create", Absent, 0, TRUE))
          => ~configMap.exists /\ configMap' = [exists |-> TRUE, data |-> NoData]
       /\ (/\ Appended(boot.calls, boot'.calls)
           /\ boot'.calls[Len(boot'.calls)] = Call("Create", Absent, 0, TRUE))
          => ~configMap.exists /\ configMap' = [exists |-> TRUE, data |-> NoData]
      ]_vars

\* ensure and the bootup call both got "not found"; another creator wrote a ConfigMap
\* with an entry; both Creates failed, both callers got an error, the entry is there.
C23_Witness ==
    /\ configMap.exists /\ configMap.data /= NoData
    /\ PassReturned /\ result = "error"
    /\ calls = <<Call("Get", Absent, 0, FALSE), Call("Create", Absent, 0, FALSE)>>
    /\ boot = [pc |-> "done", result |-> "error",
               calls |-> <<Call("Get", Absent, 0, FALSE), Call("Create", Absent, 0, FALSE)>>]

\* The step is a collaborator call that returned an error other than "not found".
FailedStep ==
    /\ Appended(calls, calls')
    /\ ~calls'[Len(calls')].ok
    /\ pc' /= "ensureCreate"

\* Every desired address is exposed by a Node with the version annotation, and every
\* Node marked "true" exposes a desired address.
Converged ==
    /\ \A a \in DOMAIN configMap.data :
         \E k \in 1..Len(cluster) : a \in cluster[k].addrs /\ cluster[k].version /= Absent
    /\ \A k \in 1..Len(cluster) :
         isBYOHNode(cluster[k]) => cluster[k].addrs \cap DOMAIN configMap.data /= {}

\* C22: over a ConfigMap that stays unchanged and valid, with passes run again and
\* again: if from some point on no collaborator call fails, then from some point on
\* the cluster is converged for good.
C22_Convergence ==
    <>[][~FailedStep]_vars => <>[]Converged

\* A pass that configured a host and deconfigured a Node has returned nil, and the
\* cluster, which was not converged when the pass listed it, is.
C22_Witness ==
    /\ PassReturned /\ result = "ok" /\ Converged
    /\ Made("Configure") /= {} /\ Made("Deconfigure") /= {}
    /\ \E k \in 1..Len(nodes) : isBYOHNode(nodes[k]) /\ Stale(nodes[k])

====
